---------------------------- MODULE Spec2Model ----------------------------
(***************************************************************************)
(* ECG digitizer: lead segmentation (lead_segmentation.py), signal         *)
(* extraction (signal_extraction.py), frame removal (frame_removal.py),    *)
(* isolated-pixel cleaning (grid_removal.py), the text mask                *)
(* (text_removal.py) and the pipeline that chains them (ecg_processor.py). *)
(*                                                                         *)
(* A raster is a function row -> column -> intensity with rows 0..h-1 and  *)
(* columns 0..w-1, as numpy indexes it.  np.median returns x.5 for a group *)
(* of even size, so lead positions and amplitudes are kept in half-pixel   *)
(* units (twice the value the program holds); boundaries, rows and columns *)
(* are in pixels.                                                          *)
(***************************************************************************)
EXTENDS Integers, Sequences, FiniteSets

VARIABLES
    pc,               \* position in the operation being run
    image,            \* the raster handed to the operation
    eps,              \* segment_leads: eps
    expected_leads,   \* segment_leads: expected_leads
    binary_image,     \* segment_leads: binary_image
    height,           \* segment_leads: height of binary_image
    signal_points,    \* segment_leads: signal_points
    lead_positions,   \* segment_leads: lead_positions (half-pixel units)
    calc_boundaries,  \* segment_leads: result of calculate_lead_boundaries
    lead_boundaries,  \* segment_leads: result of adjust_to_expected_lead_count
    lead_index,       \* create_plot: i
    extracted,        \* create_plot: result of the last extract_lead_boundaries
    shape,            \* remove_frame: image.shape, << rows, columns >>
    detection,        \* remove_frame: what edge and contour analysis produced
    cropped,          \* remove_frame: the region of the image it returned
    connectivity,     \* remove_isolated_pixels: connectivity
    min_connections,  \* remove_isolated_pixels: min_connections
    cleaned,          \* remove_isolated_pixels(image)
    cleaned_twice,    \* remove_isolated_pixels(cleaned)
    pending,          \* remove_isolated_pixels: coordinates not yet visited
    component_raised, \* create_text_mask: the component analysis raised
    component_mask,   \* create_text_mask: cc_text_mask
    final_text_mask,  \* create_text_mask: the mask it returned
    error             \* the exception that ended the operation, "" when none

segVars == << eps, expected_leads, binary_image, height, signal_points,
              lead_positions, calc_boundaries, lead_boundaries, lead_index,
              extracted >>
frameVars == << shape, detection, cropped >>
cleanVars == << connectivity, min_connections, cleaned, cleaned_twice,
                pending >>
textVars == << component_raised, component_mask, final_text_mask >>

vars == << pc, image, segVars, frameVars, cleanVars, textVars, error >>

(***************************************************************************)
(* Bounds of the model.                                                    *)
(***************************************************************************)
\* Tallest raster given to segment_leads.
MaxHeight == 4
\* Largest expected_leads given to segment_leads.
MaxExpected == 2
\* Tallest raster whose signal points are given to the clustering, and the
\* largest number of signal points.
MaxRows == 5
MaxPoints == 9
\* Largest image side given to remove_frame.
MaxDim == 23
\* Raster given to remove_isolated_pixels, and the largest min_connections.
CleanRows == 3
CleanCols == 3
MaxMinConnections == 2
\* Neighbourhood radius given to segment_leads, in pixels.
SegEps == 1
\* Largest image given to create_text_mask.
MaxTextRows == 30
MaxTextCols == 24

(***************************************************************************)
(* Program constants.                                                      *)
(***************************************************************************)
\* DBSCAN(eps=eps, min_samples=3)
MinSamples == 3
\* binarize_image(image, threshold=127); the mean test of
\* ensure_white_signal_on_black_background uses the same value.
Threshold == 127
White == 255

\* Raster width of the segmentation model: the narrowest raster in which one
\* trace (one signal point per column) forms a DBSCAN cluster.
SegWidth == MinSamples

(***************************************************************************)
(* Rasters                                                                 *)
(***************************************************************************)
Height(img) == Cardinality(DOMAIN img)
Width(img) == Cardinality(DOMAIN img[0])

Rasters(h, w) == [0 .. h - 1 -> [0 .. w - 1 -> {0, White}]]

RECURSIVE SumRow(_, _)
SumRow(row, c) == IF c < 0 THEN 0 ELSE row[c] + SumRow(row, c - 1)

RECURSIVE SumRaster(_, _)
SumRaster(img, r) ==
    IF r < 0 THEN 0 ELSE SumRow(img[r], Width(img) - 1) + SumRaster(img, r - 1)

\* The ascending sequence of the elements of a finite set of integers.
RECURSIVE Ascending(_)
Ascending(S) ==
    IF S = {} THEN << >>
    ELSE LET m == CHOOSE x \in S : \A y \in S : x <= y
         IN << m >> \o Ascending(S \ {m})

\* sorted(list): insertion of each element into an ascending sequence.
RECURSIVE Insert(_, _)
Insert(x, s) ==
    IF s = << >> THEN << x >>
    ELSE IF x <= Head(s) THEN << x >> \o s
    ELSE << Head(s) >> \o Insert(x, Tail(s))

RECURSIVE Sorted(_)
Sorted(s) == IF s = << >> THEN << >> ELSE Insert(Head(s), Sorted(Tail(s)))

\* np.median of a non-empty list, times two: the middle element, or the mean
\* of the two middle elements.
Median2(s) ==
    LET t == Sorted(s)
        n == Len(t)
    IN IF n % 2 = 1 THEN 2 * t[(n + 1) \div 2]
       ELSE t[n \div 2] + t[n \div 2 + 1]

(***************************************************************************)
(* utils.py                                                                *)
(***************************************************************************)
\* np.mean(image) > 127 over h*w samples
MeanAbove127(img) ==
    SumRaster(img, Height(img) - 1) > Threshold * Height(img) * Width(img)

ensure_white_signal_on_black_background(img) ==
    IF MeanAbove127(img)
    THEN [r \in DOMAIN img |-> [c \in DOMAIN img[r] |-> White - img[r][c]]]
    ELSE img

binarize_image(img) ==
    [r \in DOMAIN img |->
        [c \in DOMAIN img[r] |-> IF img[r][c] > Threshold THEN White ELSE 0]]

(***************************************************************************)
(* lead_segmentation.py                                                    *)
(***************************************************************************)
\* The groups of adjacent white pixels of one column, top to bottom, walked
\* as the loop of find_signal_points walks white_pixels: `group' is
\* current_group, `done' the signal points already appended.
RECURSIVE ColumnGroups(_, _, _, _)
ColumnGroups(white_pixels, i, group, done) ==
    IF i > Len(white_pixels)
    THEN done \o << Median2(group) \div 2 >>
    ELSE IF white_pixels[i] - white_pixels[i - 1] <= 1
         THEN ColumnGroups(white_pixels, i + 1,
                           Append(group, white_pixels[i]), done)
         ELSE ColumnGroups(white_pixels, i + 1, << white_pixels[i] >>,
                           done \o << Median2(group) \div 2 >>)

ColumnSignalPoints(img, col) ==
    LET white_pixels == Ascending({r \in DOMAIN img : img[r][col] > 0})
    IN IF Len(white_pixels) > 0
       THEN ColumnGroups(white_pixels, 2, << white_pixels[1] >>, << >>)
       ELSE << >>

RECURSIVE SignalPointsFrom(_, _)
SignalPointsFrom(img, col) ==
    IF col >= Width(img) THEN << >>
    ELSE ColumnSignalPoints(img, col) \o SignalPointsFrom(img, col + 1)

find_signal_points(img) == SignalPointsFrom(img, 0)

Abs(x) == IF x < 0 THEN -x ELSE x

\* DBSCAN on 1-D points X (a sequence): the eps-neighbourhood of point i,
\* the point itself included.
Neighborhood(X, radius, i) ==
    {j \in 1 .. Len(X) : Abs(X[i] - X[j]) <= radius}

\* One cluster grown from the seeds on the stack: an unlabelled point takes
\* the label, and a core point pushes its unlabelled neighbours.
RECURSIVE Expand(_, _, _, _, _)
Expand(neighborhoods, is_core, stack, labels, label_num) ==
    IF stack = {} THEN labels
    ELSE LET i == CHOOSE k \in stack : TRUE
             fresh == labels[i] = -1
             labelled == IF fresh THEN [labels EXCEPT ![i] = label_num]
                         ELSE labels
             pushed == IF fresh /\ is_core[i]
                       THEN {v \in neighborhoods[i] : labelled[v] = -1}
                       ELSE {}
         IN Expand(neighborhoods, is_core, (stack \ {i}) \union pushed,
                   labelled, label_num)

\* The scan over the points in index order: every core point that is still
\* unlabelled starts the next cluster.
RECURSIVE DbscanInner(_, _, _, _, _)
DbscanInner(neighborhoods, is_core, i, labels, label_num) ==
    IF i > Len(labels) THEN labels
    ELSE IF labels[i] # -1 \/ ~is_core[i]
         THEN DbscanInner(neighborhoods, is_core, i + 1, labels, label_num)
         ELSE DbscanInner(neighborhoods, is_core, i + 1,
                  Expand(neighborhoods, is_core, {i}, labels, label_num),
                  label_num + 1)

\* DBSCAN(eps=radius, min_samples=3).fit(X).labels_ ; -1 marks noise.
DbscanLabels(X, radius) ==
    LET neighborhoods == [i \in 1 .. Len(X) |-> Neighborhood(X, radius, i)]
        is_core == [i \in 1 .. Len(X) |->
                       Cardinality(neighborhoods[i]) >= MinSamples]
    IN DbscanInner(neighborhoods, is_core, 1, [i \in 1 .. Len(X) |-> -1], 0)

\* The exceptions that end an operation.
LoadError == "ValueError: Unable to load image"
DbscanError == "ValueError: Found array with 0 sample(s)"

\* DBSCAN.fit validates its input: an array of 0 samples is a ValueError.
DbscanRaises(X) == Len(X) = 0

RECURSIVE SelectSeq2(_, _, _, _)
SelectSeq2(X, labels, label, i) ==
    IF i > Len(X) THEN << >>
    ELSE (IF labels[i] = label THEN << X[i] >> ELSE << >>)
         \o SelectSeq2(X, labels, label, i + 1)

\* The medians of the clusters in label order (half-pixel units).
ClusterMedians(X, labels) ==
    LET used == Ascending({labels[i] : i \in 1 .. Len(X)} \ {-1})
    IN [k \in 1 .. Len(used) |-> Median2(SelectSeq2(X, labels, used[k], 1))]

cluster_lead_positions(points, radius) ==
    Sorted(ClusterMedians(points, DbscanLabels(points, radius)))

\* Midpoint with the halving left out: int(a + b).
MidpointNotHalved(a2, b2) == (a2 + b2) \div 2

\* int((a + b) / 2) of two non-negative positions held in half-pixel units.
Midpoint(a2, b2) == (a2 + b2) \div 4

\* calculate_lead_boundaries without the final append of image_height.
calculate_without_bottom(positions, image_height) ==
    << 0 >>
    \o [i \in 1 .. Len(positions) - 1 |->
            Midpoint(positions[i], positions[i + 1])]

calculate_lead_boundaries(positions, image_height) ==
    << 0 >>
    \o [i \in 1 .. Len(positions) - 1 |->
            Midpoint(positions[i], positions[i + 1])]
    \o << image_height >>

\* adjust_to_expected_lead_count slicing [:expected_leads].
adjust_one_short(boundaries, expected) ==
    IF Len(boundaries) - 1 # expected /\ Len(boundaries) - 1 > expected
    THEN SubSeq(boundaries, 1, expected)
    ELSE boundaries

\* adjust_to_expected_lead_count keeping the last expected_leads+1 entries.
adjust_keep_last(boundaries, expected) ==
    IF Len(boundaries) - 1 # expected /\ Len(boundaries) - 1 > expected
    THEN SubSeq(boundaries, Len(boundaries) - expected, Len(boundaries))
    ELSE boundaries

adjust_to_expected_lead_count(boundaries, expected) ==
    IF Len(boundaries) - 1 # expected /\ Len(boundaries) - 1 > expected
    THEN SubSeq(boundaries, 1, expected + 1)
    ELSE boundaries

(***************************************************************************)
(* signal_extraction.py                                                    *)
(***************************************************************************)
\* np.argsort(x_array): the indices of x_points in ascending order of value.
RECURSIVE ArgSort(_, _)
ArgSort(x_points, left) ==
    IF left = {} THEN << >>
    ELSE LET k == CHOOSE i \in left :
                    \A j \in left : x_points[i] < x_points[j]
                                    \/ (x_points[i] = x_points[j] /\ i <= j)
         IN << k >> \o ArgSort(x_points, left \ {k})

sort_boundary_points(x_points, y_points) ==
    IF x_points = << >> THEN [x |-> << >>, y |-> << >>]
    ELSE LET sort_idx == ArgSort(x_points, 1 .. Len(x_points))
         IN [x |-> [k \in 1 .. Len(sort_idx) |-> x_points[sort_idx[k]]],
             y |-> [k \in 1 .. Len(sort_idx) |-> y_points[sort_idx[k]]]]

\* The column loop of extract_lead_boundaries; acc holds x_upper, y_upper,
\* x_lower and y_lower, baseline2 the band-relative baseline in half pixels.
RECURSIVE ExtractColumns(_, _, _, _, _, _)
ExtractColumns(img, y_start, y_end, baseline2, x, acc) ==
    IF x >= Width(img) THEN acc
    ELSE LET white_pixels ==
                 Ascending({r - y_start : r \in
                     {q \in DOMAIN img : y_start <= q /\ q < y_end
                                         /\ img[q][x] > 0}})
             n == Len(white_pixels)
             next ==
                 IF n > 1
                 THEN [x_upper |-> Append(acc.x_upper, x),
                       y_upper |-> Append(acc.y_upper,
                                          baseline2 - 2 * white_pixels[1]),
                       x_lower |-> Append(acc.x_lower, x),
                       y_lower |-> Append(acc.y_lower,
                                          baseline2 - 2 * white_pixels[n])]
                 ELSE IF n = 1
                 THEN LET amplitude == baseline2 - 2 * white_pixels[1]
                      IN IF amplitude >= 0
                         THEN [acc EXCEPT !.x_upper = Append(@, x),
                                          !.y_upper = Append(@, amplitude)]
                         ELSE [acc EXCEPT !.x_lower = Append(@, x),
                                          !.y_lower = Append(@, amplitude)]
                 ELSE acc
         IN ExtractColumns(img, y_start, y_end, baseline2, x + 1, next)

\* extract_lead_boundaries with the baseline left in image rows (the
\* "- y_start" of line 25 dropped).
extract_baseline_not_relative(img, y_start, y_end, baseline_y) ==
    LET lead_height == y_end - y_start
        baseline2 == IF baseline_y = << >>
                     THEN 2 * (lead_height \div 2)
                     ELSE baseline_y[1]
        acc == ExtractColumns(img, y_start, y_end, baseline2, 0,
                   [x_upper |-> << >>, y_upper |-> << >>,
                    x_lower |-> << >>, y_lower |-> << >>])
    IN [upper |-> sort_boundary_points(acc.x_upper, acc.y_upper),
        lower |-> sort_boundary_points(acc.x_lower, acc.y_lower),
        lead_height |-> lead_height]

\* baseline_y is << >> for None and << p >> for a lead position p (half
\* pixels); the amplitudes returned are in half pixels.
extract_lead_boundaries(img, y_start, y_end, baseline_y) ==
    LET lead_height == y_end - y_start
        baseline2 == IF baseline_y = << >>
                     THEN 2 * (lead_height \div 2)
                     ELSE baseline_y[1] - 2 * y_start
        acc == ExtractColumns(img, y_start, y_end, baseline2, 0,
                   [x_upper |-> << >>, y_upper |-> << >>,
                    x_lower |-> << >>, y_lower |-> << >>])
    IN [upper |-> sort_boundary_points(acc.x_upper, acc.y_upper),
        lower |-> sort_boundary_points(acc.x_lower, acc.y_lower),
        lead_height |-> lead_height]

\* create_plot: baseline_y = lead_positions[i] if i < len(lead_positions)
\* else None  (i counts from 0)
BaselineOf(positions, i) ==
    IF i < Len(positions) THEN << positions[i + 1] >> ELSE << >>

NoTrace == [upper |-> [x |-> << >>, y |-> << >>],
            lower |-> [x |-> << >>, y |-> << >>],
            lead_height |-> 0]

(***************************************************************************)
(* frame_removal.py.  A region is the part of the image a crop returns:    *)
(* image[y : y + h, x : x + w].  Canny, findContours, approxPolyDP and     *)
(* boundingRect are library code; what they produce is the `detection'.    *)
(***************************************************************************)
\* crop_to_frame_interior(image, rect, margin=10)
FrameMargin == 10
\* remove_frame: 20 < w < image.shape[1] and 20 < h < image.shape[0]
FrameMinSide == 20
\* apply_margin_crop(image, margin_percent=0.05): int(dim * 0.05), in percent
MarginPercent == 5
\* apply_margin_crop: dim // 10
MarginCapDivisor == 10

Min(a, b) == IF a <= b THEN a ELSE b
Max(a, b) == IF a >= b THEN a ELSE b

Whole(img_h, img_w) == [x |-> 0, y |-> 0, w |-> img_w, h |-> img_h]

\* image[y0:y1, x0:x1] for 0 <= y0 and 0 <= x0: numpy cuts a slice at the
\* end of the axis, and a slice that ends before it starts is empty.
Slice(img_h, img_w, y0, y1, x0, x1) ==
    [x |-> x0, y |-> y0,
     w |-> Max(0, Min(x1, img_w) - x0),
     h |-> Max(0, Min(y1, img_h) - y0)]

\* crop_to_frame_interior taking the margin off each side once only.
crop_margin_once(img_h, img_w, rect) ==
    LET x == Max(0, rect[1] + FrameMargin)
        y == Max(0, rect[2] + FrameMargin)
        w == Min(rect[3] - FrameMargin, img_w - x)
        h == Min(rect[4] - FrameMargin, img_h - y)
    IN IF w <= 0 \/ h <= 0 THEN Whole(img_h, img_w)
       ELSE Slice(img_h, img_w, y, y + h, x, x + w)

\* rect is << x, y, w, h >>; remove_frame never passes None.
crop_to_frame_interior(img_h, img_w, rect) ==
    LET x == Max(0, rect[1] + FrameMargin)
        y == Max(0, rect[2] + FrameMargin)
        w == Min(rect[3] - 2 * FrameMargin, img_w - x)
        h == Min(rect[4] - 2 * FrameMargin, img_h - y)
    IN IF w <= 0 \/ h <= 0 THEN Whole(img_h, img_w)
       ELSE Slice(img_h, img_w, y, y + h, x, x + w)

\* int(dim * 0.05): the product is floored (dim >= 0), and the float product
\* floors to dim * 5 \div 100 for every dim below two million.
PercentMargin(dim) == (dim * MarginPercent) \div 100

\* apply_margin_crop slicing image[margin_y:-margin_y, margin_x:-margin_x]:
\* with a margin of 0 the slice [0:-0] is empty.
apply_margin_crop_negative_index(h, w) ==
    LET margin_x == Min(PercentMargin(w), w \div MarginCapDivisor)
        margin_y == Min(PercentMargin(h), h \div MarginCapDivisor)
        crop_width == w - 2 * margin_x
        crop_height == h - 2 * margin_y
    IN IF crop_width <= 0 \/ crop_height <= 0 THEN Whole(h, w)
       ELSE Slice(h, w, margin_y, IF margin_y = 0 THEN 0 ELSE h - margin_y,
                        margin_x, IF margin_x = 0 THEN 0 ELSE w - margin_x)

apply_margin_crop(h, w) ==
    LET margin_x == Min(PercentMargin(w), w \div MarginCapDivisor)
        margin_y == Min(PercentMargin(h), h \div MarginCapDivisor)
        crop_width == w - 2 * margin_x
        crop_height == h - 2 * margin_y
    IN IF crop_width <= 0 \/ crop_height <= 0 THEN Whole(h, w)
       ELSE Slice(h, w, margin_y, h - margin_y, margin_x, w - margin_x)

NoRect == << 0, 0, 0, 0 >>

\* The rectangle passes the test of remove_frame.
Reasonable(img_h, img_w, rect) ==
    /\ FrameMinSide < rect[3] /\ rect[3] < img_w
    /\ FrameMinSide < rect[4] /\ rect[4] < img_h

\* remove_frame cropping to whatever rectangle was found, without the test
\* of its sides and without the check of the cropped dimensions.
remove_frame_unchecked(img_h, img_w, det) ==
    IF det.kind = "rect"
    THEN LET x == Max(0, det.rect[1] + FrameMargin)
             y == Max(0, det.rect[2] + FrameMargin)
         IN Slice(img_h, img_w, y, y + det.rect[4] - 2 * FrameMargin,
                                x, x + det.rect[3] - 2 * FrameMargin)
    ELSE apply_margin_crop(img_h, img_w)

\* remove_frame: the region returned for an image of the given shape.
\* det.kind is "exception" (something in the try block raised),
\* "no_contour" (find_largest_contour returned None), "small_area"
\* (contourArea <= min_area) or "rect" (get_frame_rectangle returned
\* det.rect).
remove_frame(img_h, img_w, det) ==
    IF det.kind = "rect" /\ Reasonable(img_h, img_w, det.rect)
    THEN crop_to_frame_interior(img_h, img_w, det.rect)
    ELSE apply_margin_crop(img_h, img_w)

(***************************************************************************)
(* grid_removal.py                                                         *)
(***************************************************************************)
\* neighbor_offsets as << dy, dx >>
NeighborOffsets(conn) ==
    IF conn = 8
    THEN {<< -1, -1 >>, << -1, 0 >>, << -1, 1 >>, << 0, -1 >>, << 0, 1 >>,
          << 1, -1 >>, << 1, 0 >>, << 1, 1 >>}
    ELSE {<< -1, 0 >>, << 0, -1 >>, << 0, 1 >>, << 1, 0 >>}

\* white_neighbors of pixel (y, x), counted on the input image.
WhiteNeighbors(img, conn, y, x) ==
    Cardinality({d \in NeighborOffsets(conn) :
        LET ny == y + d[1]
            nx == x + d[2]
        IN /\ 0 <= ny /\ ny < Height(img)
           /\ 0 <= nx /\ nx < Width(img)
           /\ img[ny][nx] = White})

\* remove_isolated_pixels removing a pixel with min_connections neighbours
\* too (<= for <).
remove_isolated_pixels_inclusive(img, conn, min_conn) ==
    [y \in DOMAIN img |-> [x \in DOMAIN img[y] |->
        IF img[y][x] = White /\ WhiteNeighbors(img, conn, y, x) <= min_conn
        THEN 0 ELSE img[y][x]]]

\* cleaned starts as a copy of image; every white pixel of image with fewer
\* white neighbours in image than min_connections is set to 0 in cleaned.
remove_isolated_pixels(img, conn, min_conn) ==
    [y \in DOMAIN img |-> [x \in DOMAIN img[y] |->
        IF img[y][x] = White /\ WhiteNeighbors(img, conn, y, x) < min_conn
        THEN 0 ELSE img[y][x]]]

\* The body of the loop over coordinates counting the neighbours in the
\* array it writes to, as it would with cleaned = image in place of
\* image.copy().
check_pixel_in_place(img, out, conn, min_conn, y, x) ==
    IF WhiteNeighbors(out, conn, y, x) < min_conn
    THEN [out EXCEPT ![y][x] = 0]
    ELSE out

\* The body of the loop over coordinates, for the white pixel (y, x): the
\* neighbours are counted in image, the pixel is cleared in cleaned (out).
check_pixel(img, out, conn, min_conn, y, x) ==
    IF WhiteNeighbors(img, conn, y, x) < min_conn
    THEN [out EXCEPT ![y][x] = 0]
    ELSE out

\* The variables of a component the specification at hand does not run.
FrameIdle == shape = << 0, 0 >> /\ detection = [kind |-> "", rect |-> NoRect]
             /\ cropped = Whole(0, 0)
CleanIdle == connectivity = 0 /\ min_connections = 0 /\ cleaned = << >>
             /\ cleaned_twice = << >> /\ pending = {}
TextIdle == component_raised = FALSE /\ component_mask = << >>
            /\ final_text_mask = << >>
SegIdle ==
    /\ eps = 0 /\ expected_leads = 0 /\ binary_image = << >> /\ height = 0
    /\ signal_points = << >> /\ lead_positions = << >>
    /\ calc_boundaries = << >> /\ lead_boundaries = << >>
    /\ lead_index = 0
    /\ extracted = [upper |-> [x |-> << >>, y |-> << >>],
                    lower |-> [x |-> << >>, y |-> << >>],
                    lead_height |-> 0]

(***************************************************************************)
(* segment_leads followed by create_plot, as _segment_and_visualize calls  *)
(* them, for every raster, eps and expected_leads within the bounds.       *)
(***************************************************************************)
Init ==
    /\ pc = "segment"
    /\ \E h \in 1 .. MaxHeight : image \in Rasters(h, SegWidth)
    /\ eps = SegEps
    /\ expected_leads \in 1 .. MaxExpected
    /\ binary_image = << >>
    /\ height = 0
    /\ signal_points = << >>
    /\ lead_positions = << >>
    /\ calc_boundaries = << >>
    /\ lead_boundaries = << >>
    /\ lead_index = 0
    /\ extracted = NoTrace
    /\ FrameIdle
    /\ CleanIdle
    /\ TextIdle
    /\ error = ""

\* Lines 110-117 of segment_leads: from the signal points to the boundary
\* list.  DBSCAN.fit raises ValueError on an empty array, and nothing in
\* segment_leads catches it.
ClusterAndAdjust(points, next_pc) ==
    LET positions == cluster_lead_positions(points, eps)
        boundaries == calculate_lead_boundaries(positions, height')
    IN IF DbscanRaises(points)
       THEN /\ pc' = "error"
            /\ error' = DbscanError
            /\ UNCHANGED << lead_positions, calc_boundaries, lead_boundaries >>
       ELSE /\ pc' = next_pc
            /\ lead_positions' = positions
            /\ calc_boundaries' = boundaries
            /\ lead_boundaries' =
                   adjust_to_expected_lead_count(boundaries, expected_leads)
            /\ UNCHANGED error

\* segment_leads on a raster: the triple it returns, or the ValueError.
SegmentLeads ==
    /\ pc = "segment"
    /\ LET binary == binarize_image(
                         ensure_white_signal_on_black_background(image))
           points == find_signal_points(binary)
       IN /\ binary_image' = binary
          /\ height' = Height(binary)
          /\ signal_points' = points
          /\ ClusterAndAdjust(points, "plot")
    /\ UNCHANGED << image, eps, expected_leads, lead_index, extracted,
                    frameVars, cleanVars, textVars >>

\* One iteration of the lead loop of create_plot; after the last lead
\* create_plot returns the figure.
ExtractLead ==
    /\ pc = "plot"
    /\ lead_index < Len(lead_boundaries) - 1
    /\ extracted' = extract_lead_boundaries(binary_image,
                        lead_boundaries[lead_index + 1],
                        lead_boundaries[lead_index + 2],
                        BaselineOf(lead_positions, lead_index))
    /\ lead_index' = lead_index + 1
    /\ pc' = IF lead_index + 1 = Len(lead_boundaries) - 1
             THEN "done" ELSE "plot"
    /\ UNCHANGED << image, eps, expected_leads, binary_image, height,
                    signal_points, lead_positions, calc_boundaries,
                    lead_boundaries, frameVars, cleanVars, textVars, error >>

Next == SegmentLeads \/ ExtractLead

Spec == Init /\ [][Next]_vars

(***************************************************************************)
(* segment_leads from its signal points on: every list of up to MaxPoints  *)
(* rows of a raster of up to MaxRows rows, in ascending or in descending   *)
(* order (find_signal_points appends column by column, so the rows come in *)
(* any order across columns).                                              *)
(***************************************************************************)
\* The ascending sequences of n rows below h.
RECURSIVE AscendingRows(_, _, _)
AscendingRows(n, low, h) ==
    IF n = 0 THEN {<< >>}
    ELSE UNION {{<< r >> \o t : t \in AscendingRows(n - 1, r, h)} :
                   r \in low .. h - 1}

Reverse(s) == [k \in 1 .. Len(s) |-> s[Len(s) + 1 - k]]

InitPoints ==
    /\ pc = "cluster"
    /\ image = << >>
    /\ binary_image = << >>
    /\ eps = SegEps
    /\ expected_leads \in 1 .. MaxExpected
    /\ height \in 1 .. MaxRows
    /\ \E n \in 0 .. MaxPoints : \E s \in AscendingRows(n, 0, height) :
           signal_points \in {s, Reverse(s)}
    /\ lead_positions = << >>
    /\ calc_boundaries = << >>
    /\ lead_boundaries = << >>
    /\ lead_index = 0
    /\ extracted = NoTrace
    /\ FrameIdle
    /\ CleanIdle
    /\ TextIdle
    /\ error = ""

ClusterLeads ==
    /\ pc = "cluster"
    /\ height' = height
    /\ ClusterAndAdjust(signal_points, "returned")
    /\ UNCHANGED << image, eps, expected_leads, binary_image, signal_points,
                    lead_index, extracted, frameVars, cleanVars, textVars >>

NextPoints == ClusterLeads

SpecPoints == InitPoints /\ [][NextPoints]_vars

(***************************************************************************)
(* remove_frame on an image of every shape up to MaxDim x MaxDim, for      *)
(* every outcome of the detection.  The rectangle of a contour lies in the *)
(* image; its sides are 1 or reach the acceptance threshold, since sides   *)
(* of 2 to 19 are rejected by the same comparison as a side of 1.          *)
(***************************************************************************)
RectSides(dim) == {side \in 1 .. dim : side = 1 \/ side >= FrameMinSide}

Detections(img_h, img_w) ==
    {[kind |-> k, rect |-> NoRect] :
        k \in {"exception", "no_contour", "small_area"}}
    \union
    {[kind |-> "rect", rect |-> << x, y, w, h >>] :
        x \in 0 .. img_w - 1, y \in 0 .. img_h - 1,
        w \in RectSides(img_w), h \in RectSides(img_h)}

InitFrame ==
    /\ pc = "frame"
    /\ image = << >>
    /\ shape \in (1 .. MaxDim) \X (1 .. MaxDim)
    /\ detection = [kind |-> "", rect |-> NoRect]
    /\ cropped = Whole(0, 0)
    /\ SegIdle
    /\ CleanIdle
    /\ TextIdle
    /\ error = ""

RemoveFrame ==
    /\ pc = "frame"
    /\ \E det \in Detections(shape[1], shape[2]) :
          /\ det.kind = "rect" =>
                 /\ det.rect[1] + det.rect[3] <= shape[2]
                 /\ det.rect[2] + det.rect[4] <= shape[1]
          /\ detection' = det
          /\ cropped' = remove_frame(shape[1], shape[2], det)
    /\ pc' = "done"
    /\ UNCHANGED << image, shape, segVars, cleanVars, textVars, error >>

NextFrame == RemoveFrame

SpecFrame == InitFrame /\ [][NextFrame]_vars

(***************************************************************************)
(* remove_isolated_pixels applied twice to every CleanRows x CleanCols     *)
(* binary raster.                                                          *)
(***************************************************************************)
InitClean ==
    /\ pc = "clean"
    /\ image \in Rasters(CleanRows, CleanCols)
    /\ connectivity \in {4, 8}
    /\ min_connections \in 1 .. MaxMinConnections
    /\ cleaned = << >>
    /\ cleaned_twice = << >>
    /\ pending = {}
    /\ SegIdle
    /\ FrameIdle
    /\ TextIdle
    /\ error = ""

CleanOnce ==
    /\ pc = "clean"
    /\ cleaned' = remove_isolated_pixels(image, connectivity, min_connections)
    /\ pc' = "cleaned"
    /\ UNCHANGED << image, connectivity, min_connections, cleaned_twice,
                    pending, segVars, frameVars,
                    textVars, error >>

CleanAgain ==
    /\ pc = "cleaned"
    /\ cleaned_twice' =
           remove_isolated_pixels(cleaned, connectivity, min_connections)
    /\ pc' = "cleaned_twice"
    /\ UNCHANGED << image, connectivity, min_connections, cleaned,
                    pending, segVars, frameVars,
                    textVars, error >>

NextClean == CleanOnce \/ CleanAgain

SpecClean == InitClean /\ [][NextClean]_vars

(***************************************************************************)
(* remove_isolated_pixels step by step: the copy, one white pixel per      *)
(* iteration of the loop, the return.  The loop of the program visits the  *)
(* coordinates in row-major order; here every order is allowed.            *)
(***************************************************************************)
PassRows == CleanRows - 1
PassCols == CleanCols

InitPass ==
    /\ pc = "copy"
    /\ image \in Rasters(PassRows, PassCols)
    /\ connectivity \in {4, 8}
    /\ min_connections \in 1 .. MaxMinConnections
    /\ cleaned = << >>
    /\ cleaned_twice = << >>
    /\ pending = {}
    /\ SegIdle
    /\ FrameIdle
    /\ TextIdle
    /\ error = ""

\* cleaned = image.copy(); coordinates = the white pixels of image
CopyImage ==
    /\ pc = "copy"
    /\ cleaned' = image
    /\ pending' = {c \in (DOMAIN image) \X (DOMAIN image[0]) :
                      image[c[1]][c[2]] = White}
    /\ pc' = "visit"
    /\ UNCHANGED << image, connectivity, min_connections, cleaned_twice,
                    segVars, frameVars, textVars, error >>

\* One iteration of `for y, x in coordinates'.
VisitPixel ==
    /\ pc = "visit"
    /\ \E c \in pending :
          /\ cleaned' = check_pixel(image, cleaned, connectivity,
                                    min_connections, c[1], c[2])
          /\ pending' = pending \ {c}
    /\ UNCHANGED << pc, image, connectivity, min_connections, cleaned_twice,
                    segVars, frameVars, textVars, error >>

\* return cleaned
ReturnCleaned ==
    /\ pc = "visit"
    /\ pending = {}
    /\ pc' = "passed"
    /\ UNCHANGED << image, cleanVars, segVars, frameVars, textVars, error >>

NextPass == CopyImage \/ VisitPixel \/ ReturnCleaned

SpecPass == InitPass /\ [][NextPass]_vars

(***************************************************************************)
(* ECGProcessor.process: load, remove_grid, create_text_mask and           *)
(* remove_text, remove_frame, remove_isolated_pixels, segment_leads,       *)
(* create_plot.  The grayscale content is not modelled: remove_grid        *)
(* (morphological opening and Otsu's inverted threshold, library code)     *)
(* returns some binary raster of the shape of its input.                   *)
(***************************************************************************)
\* segment_leads(image, debug=True, eps=10, expected_leads=12), called by
\* _segment_and_visualize without eps or expected_leads.
DefaultEps == 10
DefaultExpectedLeads == 12
\* remove_isolated_pixels(image, connectivity=8, min_connections=1), called
\* by _process_image_elements with the image alone.
DefaultConnectivity == 8
DefaultMinConnections == 1
\* create_margin_mask(image, left_margin_percent=0.1,
\* bottom_margin_percent=0.05), in percent
LeftMarginPercent == 10
BottomMarginPercent == 5
\* find_text_by_connected_components: max_text_width = width // 12,
\* max_text_height = height // 15
TextWidthDivisor == 12
TextHeightDivisor == 15

Blank(img) == [y \in DOMAIN img |-> [x \in DOMAIN img[y] |-> 0]]

\* int(width * 0.1) columns on the left and int(height * 0.05) rows at the
\* bottom are 255.
create_margin_mask(img) ==
    LET left_margin_width == (Width(img) * LeftMarginPercent) \div 100
        bottom_margin_height == (Height(img) * BottomMarginPercent) \div 100
    IN [y \in DOMAIN img |-> [x \in DOMAIN img[y] |->
           IF x < left_margin_width
              \/ y >= Height(img) - bottom_margin_height
           THEN White ELSE 0]]

\* The masks find_text_by_connected_components can return: a component is
\* marked only when it is narrower than width // 12 and lower than
\* height // 15, so a raster with either bound 0 gets the blank mask.
TextComponentMasks(img) ==
    IF Width(img) \div TextWidthDivisor = 0
       \/ Height(img) \div TextHeightDivisor = 0
    THEN {Blank(img)}
    ELSE Rasters(Height(img), Width(img))

bitwise_or(a, b) ==
    [y \in DOMAIN a |-> [x \in DOMAIN a[y] |->
        IF a[y][x] = White \/ b[y][x] = White THEN White ELSE 0]]

\* cv2.dilate(mask, np.ones((3, 3)), iterations=1): the maximum over the
\* 3 x 3 neighbourhood, pixels outside the image not counted.
dilate(mask) ==
    [y \in DOMAIN mask |-> [x \in DOMAIN mask[y] |->
        IF \E dy \in {-1, 0, 1}, dx \in {-1, 0, 1} :
               /\ y + dy \in DOMAIN mask
               /\ x + dx \in DOMAIN mask[y]
               /\ mask[y + dy][x + dx] = White
        THEN White ELSE 0]]

\* create_text_mask leaving from the except branch with the margin mask as
\* it is, before the dilation.
create_text_mask_fallback_undilated(img, cc_raised, cc_text_mask) ==
    IF cc_raised THEN create_margin_mask(img)
    ELSE dilate(bitwise_or(create_margin_mask(img), cc_text_mask))

\* create_text_mask: cc_raised says that the component analysis raised, and
\* cc_text_mask is its result otherwise.
create_text_mask(img, cc_raised, cc_text_mask) ==
    IF cc_raised THEN dilate(create_margin_mask(img))
    ELSE dilate(bitwise_or(create_margin_mask(img), cc_text_mask))

remove_text(img, text_mask) ==
    [y \in DOMAIN img |-> [x \in DOMAIN img[y] |->
        IF text_mask[y][x] > 0 THEN 0 ELSE img[y][x]]]

\* image[region.y : region.y + region.h, region.x : region.x + region.w]
Crop(img, region) ==
    [y \in 0 .. region.h - 1 |-> [x \in 0 .. region.w - 1 |->
        img[region.y + y][region.x + x]]]

InitProcess ==
    /\ pc = "load"
    /\ image = << >>
    /\ eps = DefaultEps
    /\ expected_leads = DefaultExpectedLeads
    /\ binary_image = << >>
    /\ height = 0
    /\ signal_points = << >>
    /\ lead_positions = << >>
    /\ calc_boundaries = << >>
    /\ lead_boundaries = << >>
    /\ lead_index = 0
    /\ extracted = NoTrace
    /\ FrameIdle
    /\ CleanIdle
    /\ TextIdle
    /\ error = ""

\* _load_and_convert_image: cv2.imread returns None for a file it cannot
\* decode, and process ends with ValueError; otherwise the image has a shape.
LoadImage ==
    /\ pc = "load"
    /\ \/ /\ pc' = "error"
          /\ error' = LoadError
          /\ UNCHANGED shape
       \/ /\ \E h \in 1 .. MaxHeight : shape' = << h, SegWidth >>
          /\ pc' = "grid"
          /\ UNCHANGED error
    /\ UNCHANGED << image, segVars, detection, cropped, cleanVars, textVars >>

RemoveGrid ==
    /\ pc = "grid"
    /\ image' \in Rasters(shape[1], shape[2])
    /\ pc' = "text"
    /\ UNCHANGED << segVars, frameVars, cleanVars, textVars, error >>

RemoveText ==
    /\ pc = "text"
    /\ \E cc_raised \in BOOLEAN : \E cc_text_mask \in TextComponentMasks(image) :
          image' = remove_text(image,
                       create_text_mask(image, cc_raised, cc_text_mask))
    /\ pc' = "frame"
    /\ UNCHANGED << segVars, frameVars, cleanVars, textVars, error >>

RemoveFrameStage ==
    /\ pc = "frame"
    /\ \E det \in Detections(Height(image), Width(image)) :
          /\ det.kind = "rect" =>
                 /\ det.rect[1] + det.rect[3] <= Width(image)
                 /\ det.rect[2] + det.rect[4] <= Height(image)
          /\ image' = Crop(image,
                           remove_frame(Height(image), Width(image), det))
    /\ pc' = "isolated"
    /\ UNCHANGED << segVars, frameVars, cleanVars, textVars, error >>

CleanIsolatedPixels ==
    /\ pc = "isolated"
    /\ image' = remove_isolated_pixels(image, DefaultConnectivity,
                                       DefaultMinConnections)
    /\ pc' = "segment"
    /\ UNCHANGED << segVars, frameVars, cleanVars, textVars, error >>

NextProcess ==
    \/ LoadImage
    \/ RemoveGrid
    \/ RemoveText
    \/ RemoveFrameStage
    \/ CleanIsolatedPixels
    \/ SegmentLeads
    \/ ExtractLead

SpecProcess == InitProcess /\ [][NextProcess]_vars

(***************************************************************************)
(* create_text_mask on an image of every shape up to MaxTextRows x         *)
(* MaxTextCols.  create_text_mask reads the shape of the image only; the   *)
(* pixels enter through find_text_by_connected_components, whose outcome   *)
(* is component_raised and component_mask.  The component mask is blank or *)
(* marks one component of one pixel, which the size test admits only when  *)
(* width // 12 and height // 15 both exceed 1.                             *)
(***************************************************************************)
\* np.zeros_like(image)
Zeros(h, w) == [y \in 0 .. h - 1 |-> [x \in 0 .. w - 1 |-> 0]]

\* text_mask[labels == i] = 255 for a component i of the one pixel (py, px)
OnePixelMask(h, w, py, px) ==
    [y \in 0 .. h - 1 |-> [x \in 0 .. w - 1 |->
        IF y = py /\ x = px THEN White ELSE 0]]

DetectedMasks(h, w) ==
    {Zeros(h, w)}
    \union
    IF 1 < w \div TextWidthDivisor /\ 1 < h \div TextHeightDivisor
    THEN {OnePixelMask(h, w, py, px) : py \in 0 .. h - 1, px \in 0 .. w - 1}
    ELSE {}

InitText ==
    /\ pc = "text_mask"
    /\ image = << >>
    /\ shape \in (1 .. MaxTextRows) \X (1 .. MaxTextCols)
    /\ detection = [kind |-> "", rect |-> NoRect]
    /\ cropped = Whole(0, 0)
    /\ component_raised \in BOOLEAN
    /\ component_mask \in IF component_raised THEN {<< >>}
                           ELSE DetectedMasks(shape[1], shape[2])
    /\ final_text_mask = << >>
    /\ SegIdle
    /\ CleanIdle
    /\ error = ""

CreateTextMask ==
    /\ pc = "text_mask"
    /\ final_text_mask' = create_text_mask(Zeros(shape[1], shape[2]),
                                           component_raised, component_mask)
    /\ pc' = "masked"
    /\ UNCHANGED << image, segVars, frameVars, cleanVars, component_raised,
                    component_mask, error >>

NextText == CreateTextMask

SpecText == InitText /\ [][NextText]_vars

(***************************************************************************)
(* Properties of segment_leads and create_plot, checked under Spec.        *)
(***************************************************************************)
\* segment_leads has returned its triple.
Returned == pc \in {"returned", "plot", "done"}

Last(s) == s[Len(s)]

\* C1 as stated: the boundary list returned by segment_leads starts with 0
\* and ends with the image height, the truncated list of the over-detection
\* case included.
C1_BracketedByZeroAndHeight ==
    Returned =>
        /\ lead_boundaries[1] = 0
        /\ Last(lead_boundaries) = height

\* C1 amended: the list starts with 0; it ends with the image height when
\* at most expected_leads clusters are found, and with the midpoint between
\* lead positions expected_leads and expected_leads + 1 when more are.
C1_ZeroThenHeightOrMidpoint ==
    Returned =>
        /\ lead_boundaries[1] = 0
        /\ IF Len(lead_positions) <= expected_leads
           THEN Last(lead_boundaries) = height
           ELSE 4 * Last(lead_boundaries)
                    <= lead_positions[expected_leads]
                       + lead_positions[expected_leads + 1]
                /\ lead_positions[expected_leads]
                   + lead_positions[expected_leads + 1]
                    < 4 * Last(lead_boundaries) + 4

\* More clusters than expected leads: the list stops short of the height.
C1_Witness ==
    /\ Returned
    /\ Len(lead_positions) > expected_leads
    /\ Last(lead_boundaries) < height

\* C2 as stated: the boundary list is one longer than the list of lead
\* positions, whatever the number of clusters.
C2_OneMoreThanPositions ==
    Returned => Len(lead_boundaries) = Len(lead_positions) + 1

\* C2 amended: the boundary list is one longer than the list of lead
\* positions when 1 to expected_leads clusters are found; with no cluster it
\* has 2 entries, and with more than expected_leads clusters it has
\* expected_leads + 1 entries while every lead position is returned.
C2_LengthByClusterCount ==
    Returned =>
        LET n == Len(lead_positions)
        IN /\ (1 <= n /\ n <= expected_leads)
                  => Len(lead_boundaries) = n + 1
           /\ n = 0 => Len(lead_boundaries) = 2
           /\ n > expected_leads
                  => Len(lead_boundaries) = expected_leads + 1

\* As many clusters as expected leads, all of them returned.
C2_Witness ==
    /\ Returned
    /\ Len(lead_positions) = expected_leads
    /\ Len(lead_boundaries) = expected_leads + 1

\* C3: with more bands than expected_leads the adjusted list is the first
\* expected_leads + 1 entries of the calculated list; otherwise it is the
\* calculated list, entry for entry.
C3_TruncateOrKeep ==
    Returned =>
        IF Len(calc_boundaries) - 1 > expected_leads
        THEN /\ Len(lead_boundaries) = expected_leads + 1
             /\ \A k \in 1 .. expected_leads + 1 :
                    lead_boundaries[k] = calc_boundaries[k]
        ELSE /\ Len(lead_boundaries) = Len(calc_boundaries)
             /\ \A k \in 1 .. Len(calc_boundaries) :
                    lead_boundaries[k] = calc_boundaries[k]

\* More bands calculated than expected, and the excess discarded.
C3_Witness ==
    /\ Returned
    /\ Len(calc_boundaries) - 1 > expected_leads
    /\ Len(lead_boundaries) < Len(calc_boundaries)

\* The band create_plot extracted last, in image rows, and its baseline in
\* half pixels: the lead position, or the band's vertical midpoint.
LastBandStart == lead_boundaries[lead_index]
LastBandEnd == lead_boundaries[lead_index + 1]
LastBandBaseline2 ==
    IF lead_index <= Len(lead_positions)
    THEN lead_positions[lead_index]
    ELSE 2 * (LastBandStart + (LastBandEnd - LastBandStart) \div 2)

BandPixels(x) ==
    {r \in DOMAIN binary_image :
        LastBandStart <= r /\ r < LastBandEnd /\ binary_image[r][x] > 0}

OnePixelPerColumn ==
    \A x \in 0 .. Width(binary_image) - 1 : Cardinality(BandPixels(x)) = 1

\* The number of entries of the trace at column x with amplitude amp2.
Entries(trace, x, amp2) ==
    Cardinality({k \in 1 .. Len(trace.x) :
                    trace.x[k] = x /\ trace.y[k] = amp2})

Occurrences(trace, x) == Cardinality({k \in 1 .. Len(trace.x) : trace.x[k] = x})

\* C9: in a band with exactly one foreground pixel in every column, each
\* column appears once, in the upper trace when baseline_row - pixel_row >= 0
\* and in the lower trace otherwise, never in both, with exactly that
\* amplitude.
C9_SinglePixelColumns ==
    (Returned /\ lead_index >= 1 /\ OnePixelPerColumn) =>
        \A x \in 0 .. Width(binary_image) - 1 :
            LET row == CHOOSE r \in BandPixels(x) : TRUE
                amp2 == LastBandBaseline2 - 2 * row
            IN IF amp2 >= 0
               THEN /\ Entries(extracted.upper, x, amp2) = 1
                    /\ Occurrences(extracted.upper, x) = 1
                    /\ Occurrences(extracted.lower, x) = 0
               ELSE /\ Entries(extracted.lower, x, amp2) = 1
                    /\ Occurrences(extracted.lower, x) = 1
                    /\ Occurrences(extracted.upper, x) = 0

\* A band below the top of the image with one pixel per column, a supplied
\* baseline, and columns on both sides of the baseline.
C9_Witness ==
    /\ Returned /\ lead_index >= 1 /\ OnePixelPerColumn
    /\ LastBandStart > 0
    /\ lead_index <= Len(lead_positions)
    /\ extracted.upper.x # << >>
    /\ extracted.lower.x # << >>

\* C10: the boundary list returned by segment_leads is non-decreasing.
C10_NonDecreasing ==
    Returned =>
        \A k \in 1 .. Len(lead_boundaries) - 1 :
            lead_boundaries[k] <= lead_boundaries[k + 1]

\* A truncated list with two midpoints between distinct lead positions.
C10_Witness ==
    /\ Returned
    /\ Len(lead_positions) > expected_leads
    /\ Len(lead_boundaries) >= 3
    /\ lead_boundaries[2] < lead_boundaries[3]

(***************************************************************************)
(* Properties of remove_frame, checked under SpecFrame.                    *)
(***************************************************************************)
FrameDone == pc = "done" /\ detection.kind # ""

Accepted ==
    /\ detection.kind = "rect"
    /\ FrameMinSide < detection.rect[3] /\ detection.rect[3] < shape[2]
    /\ FrameMinSide < detection.rect[4] /\ detection.rect[4] < shape[1]

\* min(floor(5% of dim), floor(10% of dim))
FallbackMargin(dim) ==
    IF (dim * 5) \div 100 <= dim \div 10 THEN (dim * 5) \div 100
    ELSE dim \div 10

\* C5: when no rectangle is accepted, or the detection raised, remove_frame
\* returns the margin crop of the image, input size minus twice the margin
\* on each axis, and no exception leaves the stage.
C5_FallbackIsMarginCrop ==
    (FrameDone /\ ~Accepted) =>
        /\ cropped.x = FallbackMargin(shape[2])
        /\ cropped.y = FallbackMargin(shape[1])
        /\ cropped.w = shape[2] - 2 * FallbackMargin(shape[2])
        /\ cropped.h = shape[1] - 2 * FallbackMargin(shape[1])
        /\ error = ""

\* The detection raised on an image large enough for a margin on both axes.
C5_Witness ==
    /\ FrameDone
    /\ detection.kind = "exception"
    /\ cropped.w < shape[2]
    /\ cropped.h < shape[1]

\* C6: whatever the detection produced, the raster remove_frame returns has
\* positive width and height and lies inside the input.
C6_NonEmptySubRectangle ==
    FrameDone =>
        /\ cropped.w >= 1 /\ cropped.h >= 1
        /\ cropped.x >= 0 /\ cropped.y >= 0
        /\ cropped.x + cropped.w <= shape[2]
        /\ cropped.y + cropped.h <= shape[1]

\* An accepted rectangle that touches the right and bottom edges of the
\* image, cropped to a single column.
C6_Witness ==
    /\ FrameDone /\ Accepted
    /\ detection.rect[1] + detection.rect[3] = shape[2]
    /\ detection.rect[2] + detection.rect[4] = shape[1]
    /\ cropped.w = 1

\* C7: an accepted rectangle (x, y, w, h) is cropped to origin
\* (x + 10, y + 10) and size (w - 20, h - 20): positive, and smaller than
\* the input by at least twice the margin on each axis.
C7_AcceptedInterior ==
    (FrameDone /\ Accepted) =>
        /\ cropped = [x |-> detection.rect[1] + 10,
                      y |-> detection.rect[2] + 10,
                      w |-> detection.rect[3] - 20,
                      h |-> detection.rect[4] - 20]
        /\ cropped.w > 0 /\ cropped.h > 0
        /\ shape[2] - cropped.w >= 2 * FrameMargin
        /\ shape[1] - cropped.h >= 2 * FrameMargin

\* An accepted rectangle away from the image origin, wider than the
\* narrowest accepted one.
C7_Witness ==
    /\ FrameDone /\ Accepted
    /\ detection.rect[1] > 0 /\ detection.rect[2] > 0
    /\ cropped.w > 1 /\ cropped.h > 1

(***************************************************************************)
(* Properties of remove_isolated_pixels, checked under SpecClean.          *)
(***************************************************************************)
\* C8: with min_connections = 1 a second pass with the same connectivity
\* removes no pixel the first pass left.
C8_Idempotent ==
    (pc = "cleaned_twice" /\ min_connections = 1) =>
        \A y \in DOMAIN cleaned : \A x \in DOMAIN cleaned[y] :
            cleaned_twice[y][x] = cleaned[y][x]

\* The first pass removed a pixel and left others.
C8_Witness ==
    /\ pc = "cleaned_twice" /\ min_connections = 1
    /\ \E y \in DOMAIN image : \E x \in DOMAIN image[y] :
           image[y][x] = White /\ cleaned[y][x] = 0
    /\ \E y \in DOMAIN cleaned : \E x \in DOMAIN cleaned[y] :
           cleaned[y][x] = White

(***************************************************************************)
(* The clustering of cluster_lead_positions against the run scan, checked  *)
(* under SpecPoints.                                                       *)
(***************************************************************************)
\* The run scan over sorted points: a gap above the radius between
\* consecutive points closes the run.  `run' is the run being filled, `done'
\* the runs already closed.
RECURSIVE RunsFrom(_, _, _, _, _)
RunsFrom(sorted, radius, i, run, done) ==
    IF i > Len(sorted) THEN Append(done, run)
    ELSE IF sorted[i] - sorted[i - 1] <= radius
         THEN RunsFrom(sorted, radius, i + 1, Append(run, sorted[i]), done)
         ELSE RunsFrom(sorted, radius, i + 1, << sorted[i] >>,
                       Append(done, run))

\* The runs of the signal points, in ascending order; none for no point.
Runs ==
    LET sorted == Sorted(signal_points)
    IN IF sorted = << >> THEN << >>
       ELSE RunsFrom(sorted, eps, 2, << sorted[1] >>, << >>)

\* The run a row belongs to.
RunOf(row) ==
    CHOOSE k \in 1 .. Len(Runs) : \E j \in 1 .. Len(Runs[k]) : Runs[k][j] = row

IsClusterRun(run) == Len(run) >= MinSamples

\* The lead positions of the run scan: the medians of the runs of at least
\* 3 points, in ascending order (half-pixel units).
RunScanPositions ==
    LET kept == SelectSeq(Runs, IsClusterRun)
    IN [k \in 1 .. Len(kept) |-> Median2(kept[k])]

\* The labels of the clustering and the runs describe the same clusters and
\* the same noise points, and the lead positions are the medians of the
\* runs kept.
RunScanAgrees ==
    LET labels == DbscanLabels(signal_points, eps)
        n == Len(signal_points)
    IN /\ \A i \in 1 .. n :
              labels[i] = -1 <=> ~IsClusterRun(Runs[RunOf(signal_points[i])])
       /\ \A i \in 1 .. n : \A j \in 1 .. n :
              labels[i] # -1 /\ labels[j] # -1 =>
                  (labels[i] = labels[j]
                      <=> RunOf(signal_points[i]) = RunOf(signal_points[j]))
       /\ lead_positions = RunScanPositions

\* C13: for every multiset of signal points, the empty one included, the
\* clustering of cluster_lead_positions yields the clusters, the noise
\* points and the lead positions of the run scan.
C13_ClusteringIsRunScan ==
    pc # "cluster" => pc = "returned" /\ RunScanAgrees

\* The clustering and the run scan agree whenever there is a signal point
\* to cluster.
RunScanAgreesOnPoints ==
    pc = "returned" => RunScanAgrees

(***************************************************************************)
(* Properties of the pass of remove_isolated_pixels, checked under         *)
(* SpecPass.                                                               *)
(***************************************************************************)
\* The foreground neighbours of (y, x) in the input image: the pixels of the
\* image one step away, diagonal steps included under connectivity 8.
ForegroundNeighbours(y, x) ==
    {n \in (DOMAIN image) \X (DOMAIN image[0]) :
        /\ n # << y, x >>
        /\ n[1] - y \in {-1, 0, 1}
        /\ n[2] - x \in {-1, 0, 1}
        /\ connectivity = 8 \/ n[1] = y \/ n[2] = x
        /\ image[n[1]][n[2]] = White}

\* What the pass leaves at (y, x), decided on the input image alone.
PassResult(y, x) ==
    IF \/ image[y][x] = 0
       \/ /\ image[y][x] = White
          /\ Cardinality(ForegroundNeighbours(y, x)) < min_connections
    THEN 0
    ELSE image[y][x]

\* C12: whatever the order of the visits, the raster remove_isolated_pixels
\* returns holds 0 where the input held 0 or held a foreground pixel with
\* fewer than min_connections foreground neighbours in the input, and the
\* input value everywhere else; no step of the pass changes the input image.
C12_SinglePassOnInput ==
    /\ [](pc = "passed" =>
            \A y \in DOMAIN image : \A x \in DOMAIN image[y] :
                cleaned[y][x] = PassResult(y, x))
    /\ [][image' = image]_vars

\* Under connectivity 4 a pixel with two neighbours was kept although both
\* neighbours, with one neighbour each, were cleared in the same pass.
C12_Witness ==
    /\ pc = "passed"
    /\ connectivity = 4
    /\ min_connections = 2
    /\ image[0][0] = White /\ image[0][1] = White /\ image[1][0] = White
    /\ image[1][1] = 0
    /\ cleaned[0][0] = White /\ cleaned[0][1] = 0 /\ cleaned[1][0] = 0

(***************************************************************************)
(* Properties of create_text_mask, checked under SpecText.                 *)
(***************************************************************************)
\* Row y, column x lies in the left band of floor(10% of the width) columns
\* or in the bottom band of floor(5% of the height) rows.
InMarginBand(y, x) ==
    \/ x < shape[2] \div 10
    \/ y >= shape[1] - shape[1] \div 20

\* The pixel is set before the dilation: in the margin bands or, when the
\* component analysis returned, in its mask.
SetBeforeDilation(y, x) ==
    \/ InMarginBand(y, x)
    \/ ~component_raised /\ component_mask[y][x] = White

\* One dilation by a 3 x 3 kernel: some pixel of the image at most one row
\* and one column away is set.
SetAfterDilation(y, x) ==
    \E ny \in {y - 1, y, y + 1}, nx \in {x - 1, x, x + 1} :
        /\ ny \in 0 .. shape[1] - 1
        /\ nx \in 0 .. shape[2] - 1
        /\ SetBeforeDilation(ny, nx)

\* C11: create_text_mask returns without an error whether or not the
\* component analysis raised; the mask has the shape of the image and is
\* the margin bands dilated once when the analysis raised, and the union of
\* the margin bands and the component mask dilated once when it returned.
C11_DilatedMarginOrUnion ==
    pc = "masked" =>
        /\ error = ""
        /\ DOMAIN final_text_mask = 0 .. shape[1] - 1
        /\ \A y \in 0 .. shape[1] - 1 :
               /\ DOMAIN final_text_mask[y] = 0 .. shape[2] - 1
               /\ \A x \in 0 .. shape[2] - 1 :
                      final_text_mask[y][x] =
                          IF SetAfterDilation(y, x) THEN White ELSE 0

\* The analysis raised on an image with both margin bands, and the dilation
\* set the column next to the left band and the row above the bottom band.
C11_Witness ==
    /\ pc = "masked"
    /\ component_raised
    /\ shape[2] \div 10 >= 1
    /\ shape[1] \div 20 >= 1
    /\ final_text_mask[0][shape[2] \div 10] = White
    /\ final_text_mask[shape[1] - shape[1] \div 20 - 1][shape[2] - 1] = White
    /\ final_text_mask[0][shape[2] - 1] = 0

(***************************************************************************)
(* Properties of ECGProcessor.process, checked under SpecProcess.          *)
(***************************************************************************)
\* C4: processing of an image ends with an error only when the image failed
\* to load; whatever the stages find, process returns its figure.
C4_OnlyLoadFailureEndsProcessing ==
    pc = "error" => error = LoadError

=============================================================================
